---- MODULE Spec2Model ----
(***************************************************************************)
(* Model of the video-stitching pipeline of video-processor.js, in its two *)
(* variants: "native" (fluent-ffmpeg and youtube-dl-exec, callback-chained *)
(* fallback) and "docker" (docker compose exec, nested try/catch).         *)
(*                                                                         *)
(* Strings are kept as strings, a URL is the sequence of its tokens, a     *)
(* timecode is the sequence of its colon-separated fields and a field is   *)
(* the sequence of its characters.  A path is <<dir, kind, ordinal, id>>.  *)
(***************************************************************************)
EXTENDS Integers, Sequences, FiniteSets, TLC

VARIABLES variant, argv, input, pc, videoTasks, i, cutSegmentPaths, fs,
          status, reason, log,
          VideoPlayer, PreviewPlayer

\* The two components of the web front end, each with the refs and the state
\* it holds.
frontend == <<VideoPlayer, PreviewPlayer>>

vars == <<variant, argv, input, pc, videoTasks, i, cutSegmentPaths, fs,
          status, reason, log, frontend>>

\* ------------------------------------------------------------------ bounds
\* Longest task list read from the input file.
MaxTasks == 2

\* Most runs of initPlayer started on one mounted VideoPlayer.
MaxInits == 2

\* Longest segment list given to PreviewPlayer.
MaxSegments == 3

\* ------------------------------------------------------------- front end
\* While the pipeline runs no page is open: neither component is rendered.
NoVideoPlayer ==
    [videoRef |-> FALSE, playerRef |-> 0, initializingRef |-> FALSE,
     effect |-> "none", autoplay |-> FALSE, inits |-> <<>>]

NoCall == -1

NoPreviewPlayer ==
    [segments |-> 0, currentSegmentIndex |-> 0, videoRef |-> FALSE,
     playerRef |-> "null", handlers |-> [index |-> 0, length |-> 0],
     effect |-> "none", isPlaying |-> FALSE, playing |-> FALSE,
     checkIntervalRef |-> FALSE,
     last |-> [event |-> "none", at |-> 0, length |-> 0, call |-> NoCall,
               paused |-> FALSE]]

NoPage == VideoPlayer = NoVideoPlayer /\ PreviewPlayer = NoPreviewPlayer

\* ------------------------------------------------------- string utilities
Null == "null"

RECURSIVE Concat(_)
Concat(s) == IF s = <<>> THEN "" ELSE Head(s) \o Concat(Tail(s))

\* The alternatives of the first group of the regular expression.
Markers == {"youtu.be/", "v/", "u/w/", "embed/", "watch?v=", "&v="}

\* Tokens that begin with a character excluded by [^#&?].
Delimiters == {"#", "&", "?", "&v=", "?t=", "&t="}

\* Index of the last marker of the url, 0 if there is none: the leading .*
\* is greedy and the rest of the expression matches anything.
LastMarker(url) ==
    LET ms == {k \in 1..Len(url) : url[k] \in Markers}
    IN  IF ms = {} THEN 0 ELSE CHOOSE k \in ms : \A m \in ms : m <= k

\* match[2]: the longest run after the marker without '#', '&' or '?'.
Group2(url, p) ==
    LET ds == {k \in (p + 1)..Len(url) : url[k] \in Delimiters}
        q  == IF ds = {} THEN Len(url) + 1
              ELSE CHOOSE k \in ds : \A m \in ds : k <= m
    IN  Concat(SubSeq(url, p + 1, q - 1))

\* Mutation: the length of the second group is not tested.
getYouTubeIdAnyLength(url) ==
    LET p == LastMarker(url)
    IN  IF p # 0 THEN Group2(url, p) ELSE Null

getYouTubeId(url) ==
    LET p == LastMarker(url)
    IN  IF p # 0 /\ Len(Group2(url, p)) = 11 THEN Group2(url, p) ELSE Null

\* --------------------------------------------------------------- timecodes
\* Number() of a field that is not a numeral.
NaN == -1

Digits == {"0", "1", "2", "3", "4", "5", "6", "7", "8", "9"}

DigitVal(c) ==
    CASE c = "0" -> 0 [] c = "1" -> 1 [] c = "2" -> 2 [] c = "3" -> 3
      [] c = "4" -> 4 [] c = "5" -> 5 [] c = "6" -> 6 [] c = "7" -> 7
      [] c = "8" -> 8 [] c = "9" -> 9

RECURSIVE Decimal(_)
Decimal(f) ==
    IF f = <<>> THEN 0
    ELSE 10 * Decimal(SubSeq(f, 1, Len(f) - 1)) + DigitVal(f[Len(f)])

\* Number(field): the empty string is 0, a numeral is its value, anything
\* else is NaN.
Number(f) ==
    IF \A k \in 1..Len(f) : f[k] \in Digits THEN Decimal(f) ELSE NaN

\* Arithmetic and comparison of JavaScript numbers that may be NaN.
Plus(a, b)  == IF a = NaN \/ b = NaN THEN NaN ELSE a + b
Times(a, b) == IF a = NaN \/ b = NaN THEN NaN ELSE a * b
Minus(a, b) == IF a = NaN \/ b = NaN THEN NaN ELSE a - b
Leq(a, b)   == a # NaN /\ b # NaN /\ a <= b

\* The result of a function that may throw.
Thrown == [throws |-> TRUE, value |-> NaN]
Returned(v) == [throws |-> FALSE, value |-> v]

\* Mutation: the hours are weighted like minutes.
timeToSecondsHoursAsMinutes(timeStr) ==
    LET parts == [k \in 1..Len(timeStr) |-> Number(timeStr[k])]
    IN  CASE Len(parts) = 3 ->
               Returned(Plus(Plus(Times(parts[1], 60), Times(parts[2], 60)),
                             parts[3]))
          [] Len(parts) = 2 -> Returned(Plus(Times(parts[1], 60), parts[2]))
          [] Len(parts) = 1 -> Returned(parts[1])
          [] OTHER -> Thrown

timeToSeconds(timeStr) ==
    LET parts == [k \in 1..Len(timeStr) |-> Number(timeStr[k])]
    IN  CASE Len(parts) = 3 ->
               Returned(Plus(Plus(Times(parts[1], 3600), Times(parts[2], 60)),
                             parts[3]))
          [] Len(parts) = 2 -> Returned(Plus(Times(parts[1], 60), parts[2]))
          [] Len(parts) = 1 -> Returned(parts[1])
          [] OTHER -> Thrown

\* Mutation: the comparison of end and start is left out.
calculateDurationNoCheck(startTime, endTime) ==
    LET s == timeToSeconds(startTime)
        e == timeToSeconds(endTime)
    IN  IF s.throws \/ e.throws THEN Thrown
        ELSE Returned(Minus(e.value, s.value))

calculateDuration(startTime, endTime) ==
    LET s == timeToSeconds(startTime)
        e == timeToSeconds(endTime)
    IN  IF s.throws \/ e.throws THEN Thrown
        ELSE IF Leq(e.value, s.value) THEN Thrown
        ELSE Returned(Minus(e.value, s.value))

\* ------------------------------------------------------------------ inputs
UrlWatchA == <<"https://www.youtube.com/", "watch?v=", "dQw4w9WgXcQ">>
UrlShortA == <<"https://", "youtu.be/", "dQw4w9WgXcQ", "?t=", "42">>
UrlEmbedB == <<"https://www.youtube.com/", "embed/", "FZLadzn5i6Q">>
UrlNone   == <<"https://example.com/", "clip">>

IdA == "dQw4w9WgXcQ"
IdB == "FZLadzn5i6Q"

\* "00:00:10", "00:00:20", "5", "1:05", "1:02", "45", "x"
T001020 == << <<"0", "0">>, <<"0", "0">>, <<"1", "0">> >>
T002000 == << <<"0", "0">>, <<"0", "0">>, <<"2", "0">> >>
T5      == << <<"5">> >>
T105    == << <<"1">>, <<"0", "5">> >>
T102    == << <<"1">>, <<"0", "2">> >>
T45     == << <<"4", "5">> >>
Tx      == << <<"x">> >>

AllFields == {"url", "startTime", "endTime"}

Task(u, s, e, f) == [url |-> u, startTime |-> s, endTime |-> e, fields |-> f]

TaskA        == Task(UrlWatchA, T001020, T002000, AllFields)
TaskB        == Task(UrlEmbedB, T5, T105, AllFields)
TaskNoId     == Task(UrlNone, T5, T45, AllFields)
TaskBadRange == Task(UrlWatchA, T102, T45, AllFields)
TaskNaN      == Task(UrlEmbedB, Tx, T45, AllFields)
TaskMissing  == Task(UrlWatchA, T5, T45, {"url", "startTime"})

TaskEqual    == Task(UrlEmbedB, T45, T45, AllFields)

UrlEmbedA  == <<"https://www.youtube.com/", "embed/", "dQw4w9WgXcQ">>
UrlBadLen  == <<"https://www.youtube.com/", "watch?v=", "short">>
UrlTwice   == <<"https://www.youtube.com/", "watch?v=", "FZLadzn5i6Q",
                "&v=", "dQw4w9WgXcQ", "&t=", "7">>

\* "01:02:03", "02:03", ":45", "1:2:3:4"
T010203 == << <<"0", "1">>, <<"0", "2">>, <<"0", "3">> >>
T0203   == << <<"0", "2">>, <<"0", "3">> >>
TEmpty  == << <<>>, <<"4", "5">> >>
T1234   == << <<"1">>, <<"2">>, <<"3">>, <<"4">> >>

\* Tasks over the shapes of a timecode: one, two and three fields, a field
\* that is no numeral, an empty field, four fields.
TimecodeTaskSet ==
    {Task(UrlWatchA, T45, T0203, AllFields),
     Task(UrlWatchA, T0203, T010203, AllFields),
     Task(UrlEmbedB, T45, T010203, AllFields),
     Task(UrlWatchA, Tx, T45, AllFields),
     Task(UrlWatchA, T5, TEmpty, AllFields),
     Task(UrlWatchA, T45, T1234, AllFields)}

\* Tasks over the shapes of a URL.
UrlTaskSet ==
    {Task(u, T5, T45, AllFields) :
         u \in {UrlWatchA, UrlShortA, UrlEmbedA, UrlEmbedB, UrlNone,
                UrlBadLen, UrlTwice}}

TaskSet == {TaskA, TaskB, TaskNoId, TaskMissing}

\* Tasks that fail at each stage of a request: no identifier, a range that
\* is reversed or empty, and (by the outcome of the tools) download and cut.
TimeTaskSet == {TaskA, TaskNoId, TaskBadRange, TaskEqual}

RECURSIVE SeqsUpTo(_, _)
SeqsUpTo(S, n) ==
    IF n = 0 THEN {<<>>}
    ELSE LET shorter == SeqsUpTo(S, n - 1)
         IN  shorter \cup {Append(q, t) : q \in shorter, t \in S}

\* What JSON.parse of the input file yields: an array of tasks, or a value
\* that is not an array.
Inputs(S) ==
    {[isArray |-> TRUE, tasks |-> q] : q \in SeqsUpTo(S, MaxTasks)}
        \cup {[isArray |-> FALSE, tasks |-> <<>>]}

\* ------------------------------------------------------------- file system
Variants == {"native", "docker"}

\* Host directories the containers see as /workdir, /workdir/.youtube_cache
\* and /workdir/.temp_segments.
ContainerWork  == "media"
ContainerCache == "media/.youtube_cache"
ContainerTemp  == "media/.temp_segments"

DefaultCacheDir(v) == IF v = "native" THEN ".youtube_cache" ELSE ContainerCache
DefaultTempDir(v)  == IF v = "native" THEN ".temp_segments" ELSE ContainerTemp

CachePath(dir, id)        == <<dir, "video", 0, id>>
SegmentPath(dir, ord, id) == <<dir, "segment", ord, id>>
ListPath(dir)             == <<dir, "list", 0, "">>
OutputPath(dir)           == <<dir, "output", 0, "">>
DirPath(dir)              == <<dir, "dir", 0, "">>
NoPath                    == <<"", "", 0, "">>

Dir(p) == p[1]

\* path.basename of a segment path, as written into the concat list.
Basename(p) == <<p[2], p[3], p[4]>>

File(st, d) == [state |-> st, data |-> d]

\* Mutation: the test is inverted.
pathExistsInverted(p) == p \notin DOMAIN fs

pathExists(p) == p \in DOMAIN fs

Write(f, p, c) == [q \in DOMAIN f \cup {p} |-> IF q = p THEN c ELSE f[q]]

Remove(f, ps) == [q \in DOMAIN f \ ps |-> f[q]]

\* fs.remove of a directory: the directory goes with all it holds.
RemoveDir(f, dir) == Remove(f, {q \in DOMAIN f : Dir(q) = dir})

\* A directory is there when it was made or holds something.
DirExists(f, dir) == \E q \in DOMAIN f : Dir(q) = dir

\* fs.ensureDir: the directory is there afterwards, with what it held.
EnsureDir(f, dir) ==
    IF DirPath(dir) \in DOMAIN f THEN f
    ELSE Write(f, DirPath(dir), File("dir", <<>>))

\* fs.emptyDir: the directory is there afterwards and holds nothing.
EmptyDir(f, dir) == EnsureDir(RemoveDir(f, dir), dir)

\* --------------------------------------------------- paths the code builds
cachedVideoPath(id) == CachePath(argv.cacheDir, id)

\* Where the retrieval writes: the output option, or the fixed container path.
DownloadTarget(id) ==
    IF variant = "native" THEN cachedVideoPath(id)
    ELSE CachePath(ContainerCache, id)

\* What the cut reads: localVideoPath, or containerVideoPath.
CutInput(id) ==
    IF variant = "native" THEN cachedVideoPath(id)
    ELSE CachePath(ContainerCache, id)

\* Mutation: the segment is named after the video alone.
segmentOutputPathNoOrdinal(n, id) == SegmentPath(argv.tempDir, 1, id)

segmentOutputPath(n, id) == SegmentPath(argv.tempDir, n, id)

\* Where the transform writes: segmentOutputPath, or
\* segmentOutputPathContainer.
SegmentTarget(n, id) ==
    IF variant = "native" THEN segmentOutputPath(n, id)
    ELSE SegmentPath(ContainerTemp, n, id)

\* Where the merge writes: output, or /workdir/<basename of output>.
MergeTarget ==
    IF variant = "native" THEN OutputPath(argv.output)
    ELSE OutputPath(ContainerWork)

\* ------------------------------------------------------------ initial state
\* The command lines considered.  The native variant uses every directory
\* only through the option's value; the docker variant also uses the fixed
\* container paths, so all combinations are taken for it.
Configs(v) ==
    IF v = "native"
    THEN [verbose  : BOOLEAN,
          cacheDir : {DefaultCacheDir(v), "my_cache"},
          tempDir  : {DefaultTempDir(v)},
          output   : {"videos"}]
    ELSE [verbose  : BOOLEAN,
          cacheDir : {DefaultCacheDir(v), "my_cache"},
          tempDir  : {DefaultTempDir(v), "my_temp"},
          output   : {ContainerWork, "videos"}]

\* What an earlier run with the same command line has left: the cache
\* survives across runs.  The first video was retrieved by that run, the
\* second one never was.
LeftOver == {DownloadTarget(IdA)}

\* What an earlier verbose run with the default scratch directory and the one
\* task (first video, "5" to "45") has left there: the directory, the clip,
\* and in the docker variant the concat list.
StaleClip == File("full", <<1, IdA, T5, 40, "copy">>)

StaleScratch(v) ==
    LET dir  == DefaultTempDir(v)
        clip == SegmentPath(dir, 1, IdA)
        base == Write(Write(<<>>, DirPath(dir), File("dir", <<>>)),
                      clip, StaleClip)
    IN  IF v = "native" THEN base
        ELSE Write(base, ListPath(dir), File("full", <<Basename(clip)>>))

\* The files a run can start with: the cache of the earlier run, with or
\* without the scratch directory that run has kept.
InitialFiles(v) ==
    LET cache == [q \in LeftOver |-> File("full", <<>>)]
    IN  {cache,
         [q \in DOMAIN cache \cup DOMAIN StaleScratch(v) |->
              IF q \in DOMAIN cache THEN cache[q] ELSE StaleScratch(v)[q]]}

InitWith(S) ==
    /\ variant \in Variants
    /\ argv \in Configs(variant)
    /\ input \in Inputs(S)
    /\ fs \in InitialFiles(variant)
    /\ pc = "start"
    /\ videoTasks = <<>>
    /\ i = 1
    /\ cutSegmentPaths = <<>>
    /\ status = <<>>
    /\ reason = <<>>
    /\ log = <<>>
    /\ NoPage

Init == InitWith(TaskSet)

InitTimes == InitWith(TimeTaskSet)

\* The runs on which the pure functions are checked: the native variant with
\* its default directories.
InitPure(S) ==
    /\ InitWith(S)
    /\ variant = "native"
    /\ argv.cacheDir = DefaultCacheDir("native")

InitTimecodes == InitPure(TimecodeTaskSet)

InitUrls == InitPure(UrlTaskSet)

\* Runs over a video that is not cached, a URL without identifier and an
\* entry that fails the validation.
InitFair == InitWith({TaskB, TaskNoId, TaskMissing})

\* ------------------------------------------------- external tool invocations
Op(o, n, id, in, out, man, st, du) ==
    [op |-> o, req |-> n, id |-> id, input |-> in, output |-> out,
     manifest |-> man, start |-> st, dur |-> du, result |-> "running"]

\* The log with the outcome of the invocation in flight filled in.
Returns(lg, r) == [lg EXCEPT ![Len(lg)].result = r]

RetrievalOp(n, id) ==
    Op("retrieve", n, id, NoPath, DownloadTarget(id), <<>>, <<>>, 0)

TransformOp(o, n, id, task, du) ==
    Op(o, n, id, CutInput(id), SegmentTarget(n, id), <<>>, task.startTime, du)

\* Mutation: the last accumulated clip is not handed to the merge.
MergeOpDropLast(in) ==
    Op("merge", 0, "", in, MergeTarget,
       [k \in 1..(Len(cutSegmentPaths) - 1) |-> Basename(cutSegmentPaths[k])],
       <<>>, 0)

MergeOp(in) ==
    Op("merge", 0, "", in, MergeTarget,
       [k \in 1..Len(cutSegmentPaths) |-> Basename(cutSegmentPaths[k])],
       <<>>, 0)

Outcomes == {"ok", "fail", "failPartial"}

\* Mutation: giving up a request does not advance the loop.
SkipStay(why) ==
    /\ status' = [status EXCEPT ![i] = "Skipped"]
    /\ reason' = [reason EXCEPT ![i] = why]
    /\ i' = i
    /\ pc' = "loop"

\* ---------------------------------------------------------------- the loop
\* Mutation: giving up a request ends the run.
SkipAbort(why) ==
    /\ status' = [status EXCEPT ![i] = "Skipped"]
    /\ reason' = [reason EXCEPT ![i] = why]
    /\ i' = i
    /\ pc' = "exit1"

\* continue: the request is given up, the loop goes on with the next one.
Skip(why) ==
    /\ status' = [status EXCEPT ![i] = "Skipped"]
    /\ reason' = [reason EXCEPT ![i] = why]
    /\ i' = i + 1
    /\ pc' = "loop"

\* Mutation: unshift instead of push.
ProducePrepend ==
    /\ cutSegmentPaths' =
           <<segmentOutputPath(i, getYouTubeId(videoTasks[i].url))>>
               \o cutSegmentPaths
    /\ status' = [status EXCEPT ![i] = "Produced"]
    /\ i' = i + 1
    /\ pc' = "loop"
    /\ UNCHANGED reason

\* cutSegmentPaths.push(segmentOutputPath) and the end of the iteration.
\* The model's i is the code's i + 1, the ordinal in the segment's name.
Produce ==
    /\ cutSegmentPaths' =
           Append(cutSegmentPaths,
                  segmentOutputPath(i, getYouTubeId(videoTasks[i].url)))
    /\ status' = [status EXCEPT ![i] = "Produced"]
    /\ i' = i + 1
    /\ pc' = "loop"
    /\ UNCHANGED reason

\* Mutation: the cut is started and the loop goes on without awaiting it.
BeginCutNoAwait(lg) ==
    LET task == videoTasks[i]
        id   == getYouTubeId(task.url)
        d    == calculateDuration(task.startTime, task.endTime)
    IN  IF d.throws
        THEN /\ Skip("CutError")
             /\ log' = lg
        ELSE /\ log' = Append(lg, TransformOp("copy", i, id, task, d.value))
             /\ status' = [status EXCEPT ![i] = "Cutting"]
             /\ i' = i + 1
             /\ pc' = "loop"
             /\ UNCHANGED reason

\* 4b up to .save(): the duration is computed while the command is built; a
\* throw is caught by the try around the cut.
BeginCut(lg) ==
    LET task == videoTasks[i]
        id   == getYouTubeId(task.url)
        d    == calculateDuration(task.startTime, task.endTime)
    IN  IF d.throws
        THEN /\ Skip("CutError")
             /\ log' = lg
        ELSE /\ log' = Append(lg, TransformOp("copy", i, id, task, d.value))
             /\ status' = [status EXCEPT ![i] = "Cutting"]
             /\ pc' = "copy"
             /\ UNCHANGED <<i, reason>>

CheckDeps(found) ==
    /\ pc = "start"
    /\ pc' = IF found THEN "dirs" ELSE "exit1"
    /\ UNCHANGED <<frontend, variant, argv, input, videoTasks, i, cutSegmentPaths, fs,
                   status, reason, log>>

EnsureDirs ==
    /\ pc = "dirs"
    /\ fs' = EmptyDir(EnsureDir(EnsureDir(fs, argv.cacheDir), argv.tempDir),
                       argv.tempDir)
    /\ pc' = "read"
    /\ UNCHANGED <<frontend, variant, argv, input, videoTasks, i, cutSegmentPaths,
                   status, reason, log>>

\* Mutation: only the test for an array is made.
ValidInputArrayOnly(in) == in.isArray

ValidInput(in) ==
    /\ in.isArray
    /\ \A k \in 1..Len(in.tasks) : in.tasks[k].fields = AllFields

ReadInput ==
    /\ pc = "read"
    /\ IF ValidInput(input)
       THEN /\ videoTasks' = input.tasks
            /\ status' = [k \in 1..Len(input.tasks) |-> "Pending"]
            /\ reason' = [k \in 1..Len(input.tasks) |-> ""]
            /\ pc' = "loop"
       ELSE /\ pc' = "exit1"
            /\ UNCHANGED <<videoTasks, status, reason>>
    /\ UNCHANGED <<frontend, variant, argv, input, i, cutSegmentPaths, fs, log>>

Resolve ==
    /\ pc = "loop"
    /\ i <= Len(videoTasks)
    /\ IF getYouTubeId(videoTasks[i].url) = Null
       THEN Skip("InvalidReference")
       ELSE /\ status' = [status EXCEPT ![i] = "Resolving"]
            /\ pc' = "checkCache"
            /\ UNCHANGED <<i, reason>>
    /\ UNCHANGED <<frontend, variant, argv, input, videoTasks, cutSegmentPaths, fs, log>>

\* Mutation: the video is downloaded whether or not it is cached.
CheckCacheAlwaysDownload ==
    /\ pc = "checkCache"
    /\ LET id == getYouTubeId(videoTasks[i].url)
       IN  /\ log' = Append(log, RetrievalOp(i, id))
           /\ status' = [status EXCEPT ![i] = "Fetching"]
           /\ pc' = "download"
           /\ UNCHANGED <<i, reason>>
    /\ UNCHANGED <<frontend, variant, argv, input, videoTasks, cutSegmentPaths, fs>>

CheckCache ==
    /\ pc = "checkCache"
    /\ LET id == getYouTubeId(videoTasks[i].url)
       IN  IF pathExists(cachedVideoPath(id))
           THEN BeginCut(log)
           ELSE /\ log' = Append(log, RetrievalOp(i, id))
                /\ status' = [status EXCEPT ![i] = "Fetching"]
                /\ pc' = "download"
                /\ UNCHANGED <<i, reason>>
    /\ UNCHANGED <<frontend, variant, argv, input, videoTasks, cutSegmentPaths, fs>>

\* Mutation: a failed download is tried once more.
DownloadReturnsRetry(outcome) ==
    /\ pc = "download"
    /\ LET id    == getYouTubeId(videoTasks[i].url)
           tries == {k \in 1..Len(log) :
                         log[k].op = "retrieve" /\ log[k].req = i}
       IN  CASE outcome = "ok" ->
                  /\ fs' = Write(fs, DownloadTarget(id), File("full", <<>>))
                  /\ BeginCut(Returns(log, "ok"))
             [] outcome # "ok" /\ Cardinality(tries) < 2 ->
                  /\ log' = Append(Returns(log, "fail"), RetrievalOp(i, id))
                  /\ UNCHANGED <<fs, i, status, reason, pc>>
             [] OTHER ->
                  /\ Skip("DownloadError")
                  /\ log' = Returns(log, "fail")
                  /\ UNCHANGED fs
    /\ UNCHANGED <<frontend, variant, argv, input, videoTasks, cutSegmentPaths>>

DownloadReturns(outcome) ==
    /\ pc = "download"
    /\ LET id == getYouTubeId(videoTasks[i].url)
       IN  CASE outcome = "ok" ->
                  /\ fs' = Write(fs, DownloadTarget(id), File("full", <<>>))
                  /\ BeginCut(Returns(log, "ok"))
             [] outcome = "fail" ->
                  /\ Skip("DownloadError")
                  /\ log' = Returns(log, "fail")
                  /\ UNCHANGED fs
             [] outcome = "failPartial" ->
                  /\ fs' = Write(fs, DownloadTarget(id), File("partial", <<>>))
                  /\ Skip("DownloadError")
                  /\ log' = Returns(log, "fail")
    /\ UNCHANGED <<frontend, variant, argv, input, videoTasks, cutSegmentPaths>>

\* A transform can only succeed on a source that is there, with a duration
\* that is a number, into a directory that is there.
CanCut(o) ==
    /\ o.input \in DOMAIN fs
    /\ o.dur # NaN
    /\ DirExists(fs, Dir(o.output))

Clip(o, mode) == File("full", <<o.req, o.id, o.start, o.dur, mode>>)

\* Mutation: the fallback command is built without the duration.
ReencodeOpNoDuration ==
    LET task == videoTasks[i]
    IN  TransformOp("reencode", i, getYouTubeId(task.url), task, 0)

\* The fallback command, built in the error handler of the lossless cut.
ReencodeOp ==
    LET task == videoTasks[i]
    IN  TransformOp("reencode", i, getYouTubeId(task.url), task,
                    calculateDuration(task.startTime, task.endTime).value)

\* Mutation: the path is pushed before the fallback is started.
CopyReturnsPushFirst(outcome) ==
    /\ pc = "copy"
    /\ LET o == log[Len(log)]
       IN  IF outcome = "ok"
           THEN /\ CanCut(o)
                /\ fs' = Write(fs, o.output, Clip(o, "copy"))
                /\ Produce
                /\ log' = Returns(log, "ok")
           ELSE /\ log' = Append(Returns(log, "fail"), ReencodeOp)
                /\ cutSegmentPaths' =
                       Append(cutSegmentPaths,
                              segmentOutputPath(i, getYouTubeId(videoTasks[i].url)))
                /\ pc' = "reencode"
                /\ UNCHANGED <<fs, i, status, reason>>
    /\ UNCHANGED <<frontend, variant, argv, input, videoTasks>>

CopyReturns(outcome) ==
    /\ pc = "copy"
    /\ LET o == log[Len(log)]
       IN  IF outcome = "ok"
           THEN /\ CanCut(o)
                /\ fs' = Write(fs, o.output, Clip(o, "copy"))
                /\ Produce
                /\ log' = Returns(log, "ok")
           ELSE /\ log' = Append(Returns(log, "fail"), ReencodeOp)
                /\ pc' = "reencode"
                /\ UNCHANGED <<fs, i, cutSegmentPaths, status, reason>>
    /\ UNCHANGED <<frontend, variant, argv, input, videoTasks>>

\* Mutation: the end handler of the re-encode resolves without the push.
ReencodeReturnsNoPush(outcome) ==
    /\ pc = "reencode"
    /\ LET o == log[Len(log)]
       IN  IF outcome = "ok"
           THEN /\ CanCut(o)
                /\ fs' = Write(fs, o.output, Clip(o, "reencode"))
                /\ Skip("CutError")
                /\ log' = Returns(log, "ok")
                /\ UNCHANGED cutSegmentPaths
           ELSE /\ Skip("CutError")
                /\ log' = Returns(log, "fail")
                /\ UNCHANGED <<fs, cutSegmentPaths>>
    /\ UNCHANGED <<frontend, variant, argv, input, videoTasks>>

\* Mutation: the path is pushed although the re-encode failed.
ReencodeReturnsPushOnFail(outcome) ==
    /\ pc = "reencode"
    /\ LET o == log[Len(log)]
       IN  IF outcome = "ok"
           THEN /\ CanCut(o)
                /\ fs' = Write(fs, o.output, Clip(o, "reencode"))
                /\ Produce
                /\ log' = Returns(log, "ok")
           ELSE /\ Produce
                /\ log' = Returns(log, "fail")
                /\ UNCHANGED fs
    /\ UNCHANGED <<frontend, variant, argv, input, videoTasks>>

ReencodeReturns(outcome) ==
    /\ pc = "reencode"
    /\ LET o == log[Len(log)]
       IN  IF outcome = "ok"
           THEN /\ CanCut(o)
                /\ fs' = Write(fs, o.output, Clip(o, "reencode"))
                /\ Produce
                /\ log' = Returns(log, "ok")
           ELSE /\ Skip("CutError")
                /\ log' = Returns(log, "fail")
                /\ UNCHANGED <<fs, cutSegmentPaths>>
    /\ UNCHANGED <<frontend, variant, argv, input, videoTasks>>

\* ---------------------------------------------------------------- the join
\* 6, and the early exit of 5: the scratch directory is removed unless
\* verbose.
CleanedUp(f) == IF argv.verbose THEN f ELSE RemoveDir(f, argv.tempDir)

\* 5a of the docker variant: the list holds the basenames of the accumulated
\* paths and is written under tempDir.
WriteConcatList(f) ==
    IF variant = "native" THEN f
    ELSE Write(f, ListPath(argv.tempDir),
               File("full", [k \in 1..Len(cutSegmentPaths) |->
                                 Basename(cutSegmentPaths[k])]))

\* What the merge is pointed to: its inputs are given one by one (native),
\* or it is given the container path of the list (docker).
MergeInput == IF variant = "native" THEN NoPath ELSE ListPath(ContainerTemp)

\* Mutation: the test for an empty accumulator is left out.
LoopExitNoEmptyCheck ==
    /\ pc = "loop"
    /\ i > Len(videoTasks)
    /\ fs' = WriteConcatList(fs)
    /\ log' = Append(log, MergeOp(MergeInput))
    /\ pc' = "merge"
    /\ UNCHANGED <<frontend, variant, argv, input, videoTasks, i, cutSegmentPaths,
                   status, reason>>

\* 5: nothing to join ends the run with exit code 0 after the cleanup;
\* otherwise the merge is started.
LoopExit ==
    /\ pc = "loop"
    /\ i > Len(videoTasks)
    /\ IF Len(cutSegmentPaths) = 0
       THEN /\ fs' = CleanedUp(fs)
            /\ pc' = "exit0"
            /\ UNCHANGED log
       ELSE /\ fs' = WriteConcatList(fs)
            /\ log' = Append(log, MergeOp(MergeInput))
            /\ pc' = "merge"
    /\ UNCHANGED <<frontend, variant, argv, input, videoTasks, i, cutSegmentPaths,
                   status, reason>>

\* The files the merge tool opens, in order: the inputs it was given, or the
\* entries of the list it was pointed to, resolved next to the list.
MergeReads(o) ==
    IF o.input = NoPath
    THEN [k \in 1..Len(o.manifest) |->
              <<argv.tempDir, o.manifest[k][1], o.manifest[k][2],
                o.manifest[k][3]>>]
    ELSE IF o.input \in DOMAIN fs
         THEN [k \in 1..Len(fs[o.input].data) |->
                   <<Dir(o.input), fs[o.input].data[k][1],
                     fs[o.input].data[k][2], fs[o.input].data[k][3]>>]
         ELSE <<>>

CanMerge(o) ==
    /\ o.input # NoPath => o.input \in DOMAIN fs
    /\ MergeReads(o) # <<>>
    /\ \A k \in 1..Len(MergeReads(o)) : MergeReads(o)[k] \in DOMAIN fs

Merged(o) ==
    File("full", [k \in 1..Len(MergeReads(o)) |-> fs[MergeReads(o)[k]].data])

\* fs.move(mergedOutputMedia, mergedOutputHost, {overwrite: true}) when the
\* two differ and the merged file is there.
MoveOutput(f) ==
    IF variant = "docker" /\ argv.output # ContainerWork
                          /\ OutputPath(ContainerWork) \in DOMAIN f
    THEN Remove(Write(f, OutputPath(argv.output), f[OutputPath(ContainerWork)]),
                {OutputPath(ContainerWork)})
    ELSE f

\* The merge settles; its failure is caught and the run goes on to the
\* cleanup (6) and returns.
MergeReturns(outcome) ==
    /\ pc = "merge"
    /\ LET o == log[Len(log)]
       IN  CASE outcome = "ok" ->
                  /\ CanMerge(o)
                  /\ fs' = CleanedUp(MoveOutput(Write(fs, o.output,
                                                      Merged(o))))
             [] outcome = "fail" -> fs' = CleanedUp(fs)
             [] outcome = "failPartial" ->
                  fs' = CleanedUp(Write(fs, o.output, File("partial", <<>>)))
    /\ log' = Returns(log, IF outcome = "ok" THEN "ok" ELSE "fail")
    /\ pc' = "done"
    /\ UNCHANGED <<frontend, variant, argv, input, videoTasks, i, cutSegmentPaths,
                   status, reason>>

Next ==
    \/ \E found \in BOOLEAN : CheckDeps(found)
    \/ EnsureDirs
    \/ ReadInput
    \/ Resolve
    \/ CheckCache
    \/ \E outcome \in Outcomes : DownloadReturns(outcome)
    \/ \E outcome \in {"ok", "fail"} : CopyReturns(outcome)
    \/ \E outcome \in {"ok", "fail"} : ReencodeReturns(outcome)
    \/ LoopExit
    \/ \E outcome \in Outcomes : MergeReturns(outcome)

Spec == Init /\ [][Next]_vars

SpecTimes == InitTimes /\ [][Next]_vars

SpecTimecodes == InitTimecodes /\ [][Next]_vars

SpecUrls == InitUrls /\ [][Next]_vars

\* Every step of the program that can be taken is taken in the end, and every
\* invocation of an external tool returns.
SpecFair == InitFair /\ [][Next]_vars /\ WF_vars(Next)

\* ------------------------------------------------------------- properties
N == Len(videoTasks)

OpsOf(o) == {k \in 1..Len(log) : log[k].op = o}

Terminal(n) == status[n] \in {"Produced", "Skipped"}

ProducedSet == {n \in 1..N : status[n] = "Produced"}

\* The ordinal in the name of an accumulated path.
Ordinal(p) == p[3]

AccBasenames ==
    [a \in 1..Len(cutSegmentPaths) |-> Basename(cutSegmentPaths[a])]

\* The loop is over.
PastLoop == pc \in {"merge", "done", "exit0"}

\* The copy of request log[k].req failed and its re-encode is log[k].
FallbackAt(k) ==
    /\ k > 1
    /\ log[k].op = "reencode"
    /\ log[k - 1].op = "copy"
    /\ log[k - 1].req = log[k].req
    /\ log[k - 1].result = "fail"
    /\ log[k - 1].start = log[k].start
    /\ log[k - 1].dur = log[k].dur

\* Both timecodes are numbers and the end is not after the start.
NotAfter(task) ==
    LET s == timeToSeconds(task.startTime)
        e == timeToSeconds(task.endTime)
    IN  ~s.throws /\ ~e.throws /\ Leq(e.value, s.value)

C3_CacheHitCutsCachedPath ==
    /\ [][(pc = "checkCache"
             /\ cachedVideoPath(getYouTubeId(videoTasks[i].url))
                    \in DOMAIN fs)
            => /\ pc' \in {"copy", "loop"}
               /\ Len(log') > Len(log)
                    => /\ log'[Len(log')].op = "copy"
                       /\ log'[Len(log')].input
                            = cachedVideoPath(getYouTubeId(videoTasks[i].url))
          ]_vars
    /\ []((PastLoop /\ ProducedSet = 1..N)
             => \A k1, k2 \in OpsOf("retrieve") :
                    log[k1].id = log[k2].id => k1 = k2)

\* C4: a re-encode that succeeds after the failed copy of the same request
\* leaves the request Produced with exactly one clip in the accumulator.
C4_FallbackProduces ==
    \A k \in OpsOf("reencode") :
        (FallbackAt(k) /\ log[k].result = "ok")
            => /\ status[log[k].req] = "Produced"
               /\ reason[log[k].req] = ""
               /\ Cardinality({a \in 1..Len(cutSegmentPaths) :
                      Ordinal(cutSegmentPaths[a]) = log[k].req}) = 1

C4_Witness ==
    \E k \in OpsOf("reencode") :
        /\ FallbackAt(k)
        /\ log[k].result = "ok"
        /\ status[log[k].req] = "Produced"

\* C5: when the copy and the re-encode of a request both fail, the request is
\* skipped, the accumulator has no clip of it, a cached source of its
\* identifier is still there, and the loop has moved on.
C5_BothFailSkips ==
    \A k \in OpsOf("reencode") :
        (FallbackAt(k) /\ log[k].result = "fail")
            => /\ status[log[k].req] = "Skipped"
               /\ \A a \in 1..Len(cutSegmentPaths) :
                      Ordinal(cutSegmentPaths[a]) # log[k].req
               /\ \E p \in DOMAIN fs : p[2] = "video" /\ p[4] = log[k].id
               /\ i > log[k].req
               /\ pc # "exit1"

C5_Witness ==
    \E k \in OpsOf("reencode") :
        /\ FallbackAt(k)
        /\ log[k].result = "fail"
        /\ log[k].req < N
        /\ status[N] = "Produced"

C7_EmptyResult ==
    /\ (PastLoop /\ cutSegmentPaths = <<>>)
           => /\ pc = "exit0"
              /\ OpsOf("merge") = {}
              /\ \A p \in DOMAIN fs : p[2] # "output"
    /\ pc = "exit0" => cutSegmentPaths = <<>>

C7_Witness ==
    /\ pc = "exit0"
    /\ N = 2
    /\ reason = <<"InvalidReference", "InvalidReference">>

C9_NoOutputAfterFailedMerge ==
    \A k \in OpsOf("merge") :
        log[k].result = "fail" => OutputPath(argv.output) \notin DOMAIN fs

\* C10 as claimed: a request whose end is not after its start causes no
\* external invocation at all.
C10_RejectedBeforeAnyCall ==
    \A n \in 1..N :
        NotAfter(videoTasks[n]) => \A k \in 1..Len(log) : log[k].req # n

\* C10 amended: such a request causes no copy and no re-encode (a retrieval
\* may have been made for it) and is skipped.
C10_RejectedBeforeTransform ==
    \A n \in 1..N :
        NotAfter(videoTasks[n])
            => /\ \A k \in 1..Len(log) :
                      log[k].req = n => log[k].op = "retrieve"
               /\ status[n] \notin {"Cutting", "Produced"}
               /\ i > n => status[n] = "Skipped"

C10_Witness ==
    \E n \in 1..N :
        /\ NotAfter(videoTasks[n])
        /\ status[n] = "Skipped"
        /\ reason[n] = "CutError"
        /\ \E k \in OpsOf("retrieve") : log[k].req = n /\ log[k].result = "ok"

\* The parsed input is not an array, or an entry lacks one of the fields.
Malformed(in) ==
    \/ ~in.isArray
    \/ \E k \in 1..Len(in.tasks) : \E f \in AllFields : f \notin in.tasks[k].fields

\* C11: a malformed input is rejected as a whole: no request is taken up, no
\* retrieval, cut or merge is invoked, nothing is accumulated or written as
\* output, and the run can only be before the loop or in its error exit.
C11_WholeInputRejected ==
    Malformed(input)
        => /\ pc \in {"start", "dirs", "read", "exit1"}
           /\ log = <<>>
           /\ videoTasks = <<>>
           /\ status = <<>>
           /\ cutSegmentPaths = <<>>
           /\ \A p \in DOMAIN fs : p[2] # "output"

\* A well-formed entry precedes the malformed one and the directories were
\* set up, so the exit was taken by the validation.
C11_Witness ==
    /\ pc = "exit1"
    /\ input.isArray
    /\ input.tasks = <<TaskA, TaskMissing>>
    /\ DirPath(argv.tempDir) \in DOMAIN fs
    /\ log = <<>>

\* The transforms of this run that wrote a clip.
ClipOps ==
    {k \in 1..Len(log) : log[k].op \in {"copy", "reencode"}
                             /\ log[k].result = "ok"}

\* C12 as claimed: once a run that attempted the merge has ended, without
\* verbose the scratch directory holds nothing and no clip of the run is left
\* on disk, with verbose every accumulated clip path is still a file; both
\* whatever the outcome of the merge.
C12_ScratchPurgedIffNotVerbose ==
    (pc = "done" /\ OpsOf("merge") # {})
        => /\ ~argv.verbose
                => /\ \A p \in DOMAIN fs : Dir(p) # argv.tempDir
                   /\ \A k \in ClipOps : log[k].output \notin DOMAIN fs
           /\ argv.verbose
                => \A a \in 1..Len(cutSegmentPaths) :
                       cutSegmentPaths[a] \in DOMAIN fs

\* C13 as claimed: no step removes or changes a file of the cache, and a
\* retrieval is only started towards a path where no file is.
C13_CacheOnlyGrows ==
    /\ [][\A p \in DOMAIN fs :
              p[2] = "video" => (p \in DOMAIN fs' /\ fs'[p] = fs[p])]_vars
    /\ [][(Len(log') > Len(log) /\ log'[Len(log')].op = "retrieve")
             => log'[Len(log')].output \notin DOMAIN fs]_vars

\* C14 as claimed: when a retrieval has failed, no file is at the cache path
\* of its identifier; when it has succeeded, exactly one file is new under
\* the cache directory.
C14_FailedRetrievalLeavesNoFile ==
    [][(pc = "download" /\ pc' # "download")
          => /\ log'[Len(log)].result = "fail"
                  => cachedVideoPath(log[Len(log)].id) \notin DOMAIN fs'
             /\ log'[Len(log)].result = "ok"
                  => Cardinality({p \in DOMAIN fs' \ DOMAIN fs :
                                      Dir(p) = argv.cacheDir}) = 1]_vars

\* The content of the clip that request n produced in this run.
ClipData(n) ==
    LET k == CHOOSE j \in ClipOps : log[j].req = n
    IN  Clip(log[k], log[k].op).data

\* C15 as claimed: after a merge that succeeded, the one output file is at
\* the requested path, is complete, and holds the clips of the accumulator,
\* in its order, each once.
C15_OutputIsAccumulatedClips ==
    \A m \in OpsOf("merge") :
        log[m].result = "ok"
            => /\ {p \in DOMAIN fs : p[2] = "output"}
                      = {OutputPath(argv.output)}
               /\ fs[OutputPath(argv.output)].state = "full"
               /\ fs[OutputPath(argv.output)].data
                      = [a \in 1..Len(cutSegmentPaths) |->
                             ClipData(Ordinal(cutSegmentPaths[a]))]

\* One to three fields, each a non-empty numeral.
WellFormed(tc) ==
    /\ Len(tc) \in 1..3
    /\ \A k \in 1..Len(tc) :
           tc[k] # <<>> /\ \A c \in 1..Len(tc[k]) : tc[k][c] \in Digits

\* The seconds a well-formed timecode stands for.
Seconds(tc) ==
    CASE Len(tc) = 3 ->
             3600 * Decimal(tc[1]) + 60 * Decimal(tc[2]) + Decimal(tc[3])
      [] Len(tc) = 2 -> 60 * Decimal(tc[1]) + Decimal(tc[2])
      [] Len(tc) = 1 -> Decimal(tc[1])

\* The timecodes of the tasks read.
TimesRead ==
    {videoTasks[n].startTime : n \in 1..N}
        \cup {videoTasks[n].endTime : n \in 1..N}

Transforms == {k \in 1..Len(log) : log[k].op \in {"copy", "reencode"}}

\* C16: timeToSeconds of a well-formed timecode is 3600*HH + 60*MM + SS
\* (01:02:03 is 3723, 02:03 is 123, 45 is 45), and the duration of a request
\* whose end is after its start, as computed and as handed to every
\* transform, is end minus start.
C16_SecondsAndDuration ==
    /\ \A tc \in TimesRead :
           /\ WellFormed(tc) => timeToSeconds(tc) = Returned(Seconds(tc))
           /\ tc = T010203 => timeToSeconds(tc) = Returned(3723)
           /\ tc = T0203 => timeToSeconds(tc) = Returned(123)
           /\ tc = T45 => timeToSeconds(tc) = Returned(45)
    /\ \A n \in 1..N :
           LET s == videoTasks[n].startTime
               e == videoTasks[n].endTime
           IN  (WellFormed(s) /\ WellFormed(e) /\ Seconds(e) > Seconds(s))
                   => /\ calculateDuration(s, e)
                             = Returned(Seconds(e) - Seconds(s))
                      /\ \A k \in Transforms :
                             log[k].req = n
                                 => log[k].dur = Seconds(e) - Seconds(s)

C16_Witness ==
    /\ pc = "done"
    /\ {T45, T0203, T010203} \subseteq TimesRead
    /\ \E k \in ClipOps : log[k].dur = 78
    /\ \E k \in ClipOps : log[k].dur = 3600

\* C17 as claimed: for a request with a start or end time that is not
\* well-formed no transform is invoked and no clip is produced.
C17_MalformedTimeRejected ==
    \A n \in 1..N :
        (~WellFormed(videoTasks[n].startTime)
             \/ ~WellFormed(videoTasks[n].endTime))
            => /\ \A k \in Transforms : log[k].req # n
               /\ status[n] \notin {"Cutting", "Produced"}

\* C18: the watch, short and embed forms of a video yield its identifier, a
\* URL of no known shape yields null, every identifier has 11 characters,
\* and a request without identifier is skipped with no invocation for it.
C18_IdentifierExtraction ==
    \A n \in 1..N :
        LET url == videoTasks[n].url
            id  == getYouTubeId(url)
        IN  /\ url \in {UrlWatchA, UrlShortA, UrlEmbedA} => id = IdA
            /\ url = UrlEmbedB => id = IdB
            /\ url = UrlNone => id = Null
            /\ id # Null => Len(id) = 11
            /\ id = Null
                 => /\ \A k \in 1..Len(log) : log[k].req # n
                    /\ status[n] \in {"Pending", "Skipped"}
                    /\ n < i => reason[n] = "InvalidReference"
            /\ \A k \in 1..Len(log) : log[k].req = n => log[k].id = id

C18_Witness ==
    /\ pc = "done"
    /\ N = 2
    /\ videoTasks[1].url = UrlShortA
    /\ videoTasks[2].url = UrlBadLen
    /\ status = <<"Produced", "Skipped">>
    /\ \E k \in ClipOps : log[k].req = 1 /\ log[k].id = IdA

\* The run has ended after its loop.
Ended == pc \in {"done", "exit0"}

Purged ==
    /\ \A p \in DOMAIN fs : Dir(p) # argv.tempDir
    /\ \A k \in ClipOps : log[k].output \notin DOMAIN fs

\* C20 as claimed: without verbose, a run that ends with a rejected task list
\* or with a failed merge has purged its scratch area when it ends.
C20_CleanupAfterRunError ==
    /\ [][(~argv.verbose /\ pc = "read" /\ pc' = "exit1") => Purged']_vars
    /\ []((~argv.verbose /\ pc = "done"
               /\ \E m \in OpsOf("merge") : log[m].result = "fail")
             => Purged)

\* The invocations of tool o made for request n.
OpsFor(o, n) == {k \in OpsOf(o) : log[k].req = n}

\* C21: a request causes at most one retrieval, one copy and one re-encode,
\* and once it is Skipped it stays Skipped and nothing more is invoked for it.
C21_NoRetry ==
    /\ [](\A n \in 1..N : \A o \in {"retrieve", "copy", "reencode"} :
             Cardinality(OpsFor(o, n)) <= 1)
    /\ [][\A n \in 1..N :
              status[n] = "Skipped"
                  => /\ status'[n] = "Skipped"
                     /\ reason'[n] = reason[n]
                     /\ \A k \in 1..Len(log') :
                            log'[k].req = n => k <= Len(log)]_vars

C21_Witness ==
    /\ pc = "exit0"
    /\ N = 2
    /\ status = <<"Skipped", "Skipped">>
    /\ reason = <<"DownloadError", "CutError">>
    /\ Cardinality(OpsFor("retrieve", 1)) = 1
    /\ Cardinality(OpsFor("copy", 2)) = 1
    /\ Cardinality(OpsFor("reencode", 2)) = 1

\* ------------------------------------------------------------ console
\* The lines about the whole run that have been printed when the run is where
\* it is: the warning of the early exit, "Joining <n> segments...", and the
\* two closing lines with the output and the cache directory.  A line is kept
\* with the numbers and the directories it carries.  (The warnings of the
\* loop name one video each and carry no number.)
Line(what, ns, dirs) == [what |-> what, counts |-> ns, paths |-> dirs]

Console ==
       (IF pc = "exit0"
        THEN {Line("No segments were successfully cut", {}, {})} ELSE {})
  \cup (IF pc \in {"merge", "done"}
        THEN {Line("Joining segments", {Len(cutSegmentPaths)}, {})} ELSE {})
  \cup (IF pc = "done"
        THEN {Line("Final output", {}, {argv.output}),
              Line("Original downloads are cached in", {}, {argv.cacheDir})}
        ELSE {})

SkippedSet == {n \in 1..N : status[n] = "Skipped"}

\* C22 as claimed: when a run with a valid task list has ended, it has
\* reported the number of produced clips (the size of the accumulator), the
\* number of skipped requests, and the output path, and the two numbers add
\* up to the number of requests.
C22_ReportsCounts ==
    Ended =>
        /\ Len(cutSegmentPaths) + Cardinality(SkippedSet) = N
        /\ \E l \in Console : /\ l.what = "Joining segments"
                              /\ l.counts = {Len(cutSegmentPaths)}
        /\ \E l \in Console : argv.output \in l.paths
        /\ \E l \in Console : /\ l.what # "Joining segments"
                              /\ l.counts = {Cardinality(SkippedSet)}

\* The duration computed for a task is no positive number: the computation
\* throws, or what it returns is not a number greater than zero.
NoPositiveDuration(task) ==
    LET d == calculateDuration(task.startTime, task.endTime)
    IN  d.throws \/ ~(d.value # NaN /\ d.value > 0)

\* C23 as claimed: for a request whose duration is not positive or whose
\* timecode does not parse, neither the copy nor the re-encode is invoked,
\* and the request is skipped.
C23_NoTransformWithoutDuration ==
    \A n \in 1..N :
        NoPositiveDuration(videoTasks[n])
            => /\ \A k \in Transforms : log[k].req # n
               /\ status[n] \notin {"Cutting", "Produced"}
               /\ i > n => status[n] = "Skipped" /\ reason[n] # ""

\* C24: the first transform of a request is the stream copy; a re-encode is
\* in the log exactly where the copy of the same request has failed, right
\* after it, and with the same source, start, duration and output path.
C24_CopyThenReencode ==
    /\ \A n \in 1..N :
           status[n] = "Cutting" \/ OpsFor("reencode", n) # {}
               => \E c \in OpsFor("copy", n) :
                      \A k \in Transforms : log[k].req = n => c <= k
    /\ \A k \in OpsOf("copy") :
           log[k].result = "fail"
               <=> /\ k < Len(log)
                   /\ log[k + 1].op = "reencode"
                   /\ log[k + 1].req = log[k].req
    /\ \A k \in OpsOf("reencode") :
           /\ k > 1
           /\ log[k - 1].op = "copy"
           /\ log[k - 1].result = "fail"
           /\ \A f \in {"req", "id", "input", "start", "dur", "output"} :
                  log[k - 1][f] = log[k][f]

C24_Witness ==
    /\ pc = "done"
    /\ N = 2
    /\ \E c \in OpsFor("copy", 1) :
           /\ log[c].result = "fail"
           /\ log[c + 1].op = "reencode"
           /\ log[c + 1].result = "ok"
           /\ log[c + 1].output = log[c].output
           /\ log[c + 1].dur > 0
    /\ \E c \in OpsFor("copy", 2) : log[c].result = "ok"
    /\ OpsFor("reencode", 2) = {}

\* The invocation started by the step, if it started one.
Started == log'[Len(log')]

\* C25: a retrieval is started only for the request at hand, with its
\* extracted identifier, while nothing is at its cache path; a cut is started
\* only for a request with an identifier, right after the cache test found
\* its source or right after its retrieval succeeded; a request whose
\* retrieval failed has no transform and is never Cutting or Produced.
C25_StageOrder ==
    /\ [][(Len(log') > Len(log) /\ Started.op = "retrieve")
             => /\ pc = "checkCache"
                /\ Started.req = i
                /\ Started.id = getYouTubeId(videoTasks[i].url)
                /\ Started.id # Null
                /\ ~pathExists(cachedVideoPath(Started.id))]_vars
    /\ [][(Len(log') > Len(log) /\ Started.op = "copy")
             => /\ Started.req = i
                /\ Started.id = getYouTubeId(videoTasks[i].url)
                /\ Started.id # Null
                /\ \/ /\ pc = "checkCache"
                      /\ pathExists(cachedVideoPath(Started.id))
                   \/ /\ pc = "download"
                      /\ log[Len(log)].op = "retrieve"
                      /\ log[Len(log)].req = i
                      /\ log'[Len(log)].result = "ok"]_vars
    /\ [](\A n \in 1..N :
             (\E k \in OpsFor("retrieve", n) : log[k].result = "fail")
                 => /\ \A k \in Transforms : log[k].req # n
                    /\ status[n] = "Skipped"
                    /\ reason[n] = "DownloadError")

C25_Witness ==
    /\ pc = "done"
    /\ N = 2
    /\ \E k \in OpsFor("retrieve", 1) : log[k].result = "fail"
    /\ \A k \in Transforms : log[k].req = 2
    /\ OpsFor("retrieve", 2) = {}
    /\ status = <<"Skipped", "Produced">>

\* The invocations that have not returned yet.
InFlight == {k \in 1..Len(log) : log[k].result = "running"}

\* C26: at most one invocation is in flight, it is the latest one and it
\* belongs to the request at hand (or is the merge, after the loop); every
\* request before the one at hand is Produced or Skipped, and every request
\* after it is still Pending with nothing invoked for it.
C26_Sequential ==
    /\ Cardinality(InFlight) <= 1
    /\ \A k \in InFlight :
           /\ k = Len(log)
           /\ pc \in {"download", "copy", "reencode", "merge"}
           /\ IF log[k].op = "merge" THEN i = N + 1 ELSE log[k].req = i
    /\ \A n \in 1..N :
           /\ n < i => Terminal(n)
           /\ n > i => /\ status[n] = "Pending"
                       /\ \A k \in 1..Len(log) : log[k].req # n
    /\ \A a, b \in 1..Len(log) :
           (a < b /\ log[b].op # "merge") => log[a].req <= log[b].req

C26_Witness ==
    /\ variant = "native"
    /\ pc = "reencode"
    /\ i = 2
    /\ N = 2
    /\ status = <<"Produced", "Cutting">>
    /\ InFlight = {Len(log)}
    /\ log[Len(log)].op = "reencode"
    /\ \E k \in OpsFor("reencode", 1) : log[k].result = "ok"

\* The file at path p is a clip that a transform of this run has written.
FromThisRun(p) ==
    \E k \in ClipOps : log[k].output = p /\ fs[p] = Clip(log[k], log[k].op)

\* C27 as claimed: the step before the task list is read leaves the scratch
\* directory empty, with and without verbose; and while the merge runs, every
\* accumulated path that is a file, and every file the merge reads, is a clip
\* written by this run.
C27_ScratchFreshEachRun ==
    /\ [][pc = "dirs"
             => \A p \in DOMAIN fs' :
                    Dir(p) = argv.tempDir => p = DirPath(argv.tempDir)]_vars
    /\ [](pc = "merge"
             => /\ \A a \in 1..Len(cutSegmentPaths) :
                       cutSegmentPaths[a] \in DOMAIN fs
                           => FromThisRun(cutSegmentPaths[a])
                /\ \A r \in 1..Len(MergeReads(log[Len(log)])) :
                       MergeReads(log[Len(log)])[r] \in DOMAIN fs
                           => FromThisRun(MergeReads(log[Len(log)])[r]))

\* C28 as claimed: every retrieval writes to the cache path that the
\* existence check tests for its identifier, every transform reads from that
\* path, and after a retrieval that succeeded the existence check for the
\* identifier succeeds.
C28_OneCachePath ==
    /\ [](\A k \in OpsOf("retrieve") :
              log[k].output = cachedVideoPath(log[k].id))
    /\ [](\A k \in Transforms : log[k].input = cachedVideoPath(log[k].id))
    /\ [][(pc = "download" /\ log'[Len(log)].result = "ok")
             => cachedVideoPath(log[Len(log)].id) \in DOMAIN fs']_vars

\* The positions of the accumulator that hold a clip of request n.
EntriesOf(n) ==
    {a \in 1..Len(cutSegmentPaths) : Ordinal(cutSegmentPaths[a]) = n}

\* C29: a request has at most one entry in the accumulator, none unless one
\* of its transforms succeeded and none while it is still being cut; the
\* accumulator is never longer than the number of requests the loop has
\* finished.
C29_AtMostOneEntry ==
    /\ \A n \in 1..N :
           /\ Cardinality(EntriesOf(n)) <= 1
           /\ Cardinality(EntriesOf(n))
                  = Cardinality({k \in ClipOps : log[k].req = n})
           /\ status[n] # "Produced" => EntriesOf(n) = {}
    /\ Len(cutSegmentPaths) <= i - 1
    /\ Len(cutSegmentPaths) <= N

C29_Witness ==
    /\ pc = "done"
    /\ N = 2
    /\ \E c \in OpsFor("copy", 1) : log[c].result = "fail"
    /\ \E r \in OpsFor("reencode", 1) : log[r].result = "ok"
    /\ \E c \in OpsFor("copy", 2) : log[c].result = "fail"
    /\ \E r \in OpsFor("reencode", 2) : log[r].result = "fail"
    /\ Cardinality(EntriesOf(1)) = 1
    /\ EntriesOf(2) = {}
    /\ Len(cutSegmentPaths) = 1

\* C30: an accumulated path carries the 1-based position and the identifier
\* of its request, so no two entries are equal; transforms of different
\* requests write to different paths; and until the cleanup every clip a
\* transform of the run has written is still at its path, as written.
C30_DistinctClipPaths ==
    /\ \A a \in 1..Len(cutSegmentPaths) :
           \E n \in 1..N :
               cutSegmentPaths[a]
                   = SegmentPath(argv.tempDir, n, getYouTubeId(videoTasks[n].url))
    /\ \A a, b \in 1..Len(cutSegmentPaths) :
           a # b => cutSegmentPaths[a] # cutSegmentPaths[b]
    /\ \A j, k \in Transforms :
           log[j].req # log[k].req => log[j].output # log[k].output
    /\ pc \notin {"done", "exit0"}
           => \A k \in ClipOps :
                  /\ log[k].output \in DOMAIN fs
                  /\ fs[log[k].output] = Clip(log[k], log[k].op)

C30_Witness ==
    /\ pc = "merge"
    /\ N = 2
    /\ videoTasks[1] = videoTasks[2]
    /\ status = <<"Produced", "Produced">>
    /\ Len(cutSegmentPaths) = 2
    /\ cutSegmentPaths[1] # cutSegmentPaths[2]
    /\ \A n \in 1..2 : \E k \in ClipOps :
           /\ log[k].req = n
           /\ fs[log[k].output].data[1] = n

\* ------------------------------------------------- the two variants compared
\* What a run shows of itself whatever the variant: the tasks, the position
\* in the loop, the fate of every request, the accumulator, the invocations
\* made with their outcomes, the identifiers the existence check finds in the
\* cache directory, and whether the scratch directory is there.
Calls == [k \in 1..Len(log) |-> <<log[k].op, log[k].req, log[k].result>>]

Cached ==
    {id \in {getYouTubeId(videoTasks[n].url) : n \in 1..N} \ {Null} :
         pathExists(cachedVideoPath(id))}

View ==
    [tasks |-> videoTasks, pc |-> pc, i |-> i, status |-> status,
     reason |-> reason, acc |-> cutSegmentPaths, calls |-> Calls,
     cached |-> Cached, verbose |-> argv.verbose,
     scratch |-> DirExists(fs, argv.tempDir)]

\* The loop, the join and the cleanup as written in the native variant, on
\* views: the successors of a view, one for every outcome of the invocation
\* in flight.
RSkip(v, why) ==
    [v EXCEPT !.status[v.i] = "Skipped", !.reason[v.i] = why,
              !.i = v.i + 1, !.pc = "loop"]

RProduce(v) ==
    [v EXCEPT !.acc = Append(@, SegmentPath(argv.tempDir, v.i,
                                            getYouTubeId(v.tasks[v.i].url))),
              !.status[v.i] = "Produced", !.i = v.i + 1, !.pc = "loop"]

RCall(v, o, n) == [v EXCEPT !.calls = Append(@, <<o, n, "running">>)]

RReturn(v, r) == [v EXCEPT !.calls[Len(v.calls)][3] = r]

RBeginCut(v) ==
    IF calculateDuration(v.tasks[v.i].startTime, v.tasks[v.i].endTime).throws
    THEN RSkip(v, "CutError")
    ELSE [RCall(v, "copy", v.i) EXCEPT !.status[v.i] = "Cutting",
                                       !.pc = "copy"]

RefSucc(v) ==
    LET id == getYouTubeId(v.tasks[v.i].url)
    IN  CASE v.pc = "loop" /\ v.i <= Len(v.tasks) ->
                 {IF id = Null THEN RSkip(v, "InvalidReference")
                  ELSE [v EXCEPT !.status[v.i] = "Resolving",
                                 !.pc = "checkCache"]}
          [] v.pc = "loop" /\ v.i > Len(v.tasks) ->
                 {IF v.acc = <<>>
                  THEN [v EXCEPT !.pc = "exit0",
                                 !.scratch = @ /\ v.verbose]
                  ELSE [RCall(v, "merge", 0) EXCEPT !.pc = "merge"]}
          [] v.pc = "checkCache" ->
                 {IF id \in v.cached THEN RBeginCut(v)
                  ELSE [RCall(v, "retrieve", v.i)
                            EXCEPT !.status[v.i] = "Fetching",
                                   !.pc = "download"]}
          [] v.pc = "download" ->
                 {RBeginCut([RReturn(v, "ok") EXCEPT !.cached = @ \cup {id}]),
                  RSkip(RReturn(v, "fail"), "DownloadError"),
                  RSkip([RReturn(v, "fail") EXCEPT !.cached = @ \cup {id}],
                        "DownloadError")}
          [] v.pc = "copy" ->
                 {RProduce(RReturn(v, "ok")),
                  [RCall(RReturn(v, "fail"), "reencode", v.i)
                       EXCEPT !.pc = "reencode"]}
          [] v.pc = "reencode" ->
                 {RProduce(RReturn(v, "ok")),
                  RSkip(RReturn(v, "fail"), "CutError")}
          [] v.pc = "merge" ->
                 {[RReturn(v, r) EXCEPT !.pc = "done",
                                        !.scratch = @ /\ v.verbose] :
                      r \in {"ok", "fail"}}
          [] OTHER -> {}

\* C31 as claimed: from the loop on, every step of either variant takes the
\* view of the run to a successor the same rules give: the same invocation
\* is made or settled, the same request is produced or skipped, the same
\* identifiers are in the cache and the same cleanup decision is taken.
C31_VariantsAgree ==
    [][(pc \in {"loop", "checkCache", "download", "copy", "reencode", "merge"})
          => View' \in RefSucc(View)]_vars

\* =========================================================== VideoPlayer.tsx
\* While a page is open the pipeline is at rest.
pipeline == <<variant, argv, input, pc, videoTasks, i, cutSegmentPaths, fs,
              status, reason, log>>

NoRun ==
    /\ variant = "native"
    /\ argv = [verbose |-> FALSE, cacheDir |-> DefaultCacheDir("native"),
               tempDir |-> DefaultTempDir("native"), output |-> "videos"]
    /\ input = [isArray |-> TRUE, tasks |-> <<>>]
    /\ fs = <<>>
    /\ pc = "start"
    /\ videoTasks = <<>>
    /\ i = 1
    /\ cutSegmentPaths = <<>>
    /\ status = <<>>
    /\ reason = <<>>
    /\ log = <<>>

\* One call of initPlayer: where it is (awaiting the three imports, awaiting
\* the YouTube API, returned, or in its catch), the player its call of
\* videojs has returned, its 100 ms interval, whether that player plays,
\* whether the cleanup of the effect that made the call has run, and whether
\* checkTime has called onEnded.
NewInit ==
    [stage |-> "imports", player |-> "none", interval |-> FALSE,
     playing |-> FALSE, torn |-> FALSE, ended |-> "no"]

\* The component after its first commit: the video element is attached and
\* the effect is about to run.
InitVideoPlayer ==
    /\ NoRun
    /\ PreviewPlayer = NoPreviewPlayer
    /\ \E a \in BOOLEAN :
           VideoPlayer = [NoVideoPlayer EXCEPT !.videoRef = TRUE,
                                               !.effect = "pending",
                                               !.autoplay = a]

\* The body of the effect: it returns early, without a cleanup, when the
\* element is missing, a player is referenced or the flag is set; else it sets
\* the flag, calls initPlayer and returns the cleanup.
EffectBody(vp) ==
    IF ~vp.videoRef \/ vp.playerRef # 0 \/ vp.initializingRef
    THEN [vp EXCEPT !.effect = "inert"]
    ELSE [vp EXCEPT !.initializingRef = TRUE,
                    !.inits = Append(@, NewInit),
                    !.effect = "active"]

\* The cleanup the effect has returned: the flag is reset, and the referenced
\* player, when it is not disposed, is disposed and the reference cleared.
\* The call of initPlayer made by the effect is the latest one.
EffectCleanup(vp) ==
    LET p        == vp.playerRef
        disposes == p # 0 /\ vp.inits[p].player = "live"
    IN  [vp EXCEPT
           !.initializingRef = FALSE,
           !.playerRef = IF disposes THEN 0 ELSE p,
           !.inits = [k \in DOMAIN vp.inits |->
                         [vp.inits[k] EXCEPT
                            !.torn = @ \/ k = Len(vp.inits),
                            !.player = IF disposes /\ k = p
                                       THEN "disposed" ELSE @,
                            !.playing = IF disposes /\ k = p
                                        THEN FALSE ELSE @]]]

TornDown(vp) == IF vp.effect = "active" THEN EffectCleanup(vp) ELSE vp

\* The effect runs after the first commit.
RunEffect ==
    /\ VideoPlayer.effect = "pending"
    /\ VideoPlayer' = EffectBody(VideoPlayer)
    /\ UNCHANGED <<PreviewPlayer, pipeline>>

\* A dependency of the effect changes (videoId, startTime, endTime, onReady,
\* onEnded, autoplay): the cleanup of the previous run, if it returned one,
\* then the body again, both in one commit.
PropsChange ==
    /\ VideoPlayer.effect \in {"active", "inert"}
    /\ LET next == EffectBody(TornDown(VideoPlayer))
       IN  /\ Len(next.inits) <= MaxInits
           /\ VideoPlayer' = next
    /\ UNCHANGED <<PreviewPlayer, pipeline>>

\* The component is unmounted: the cleanup runs and the ref is detached.
Unmount ==
    /\ VideoPlayer.effect \in {"active", "inert"}
    /\ VideoPlayer' = [TornDown(VideoPlayer) EXCEPT !.videoRef = FALSE,
                                                    !.effect = "gone"]
    /\ UNCHANGED <<PreviewPlayer, pipeline>>

\* Call p of initPlayer is at stage s.
At(p, s) ==
    /\ p \in 1..Len(VideoPlayer.inits)
    /\ VideoPlayer.inits[p].stage = s

\* An import is rejected: the catch resets the flag.
ImportFails(p) ==
    /\ At(p, "imports")
    /\ VideoPlayer' = [VideoPlayer EXCEPT !.initializingRef = FALSE,
                                          !.inits[p].stage = "threw"]
    /\ UNCHANGED <<PreviewPlayer, pipeline>>

\* The imports are done and the checks before the last await are made: the
\* YouTube tech may be missing; videoRef.current! is null once the component
\* is unmounted and the attribute test throws into the catch; the attribute
\* data-vjs-player is rendered on the wrapper, and on the video element only
\* the library can have put it, once a player was made.
ImportsDone(p, tech, marked) ==
    /\ At(p, "imports")
    /\ marked => \E q \in 1..Len(VideoPlayer.inits) :
                     VideoPlayer.inits[q].player # "none"
    /\ VideoPlayer' =
           IF ~tech THEN [VideoPlayer EXCEPT !.inits[p].stage = "returned"]
           ELSE IF ~VideoPlayer.videoRef
           THEN [VideoPlayer EXCEPT !.initializingRef = FALSE,
                                    !.inits[p].stage = "threw"]
           ELSE IF marked
           THEN [VideoPlayer EXCEPT !.inits[p].stage = "returned"]
           ELSE [VideoPlayer EXCEPT !.inits[p].stage = "waitYT"]
    /\ UNCHANGED <<PreviewPlayer, pipeline>>

\* The YouTube API is ready: videojs(videoElement, ...) is called on the
\* element taken before the await, the player is stored in playerRef, the
\* ready callback starts it when autoplay is set, and the interval is set.
\* The function initPlayer returns is never called.
YTReady(p) ==
    /\ At(p, "waitYT")
    /\ VideoPlayer' = [VideoPlayer EXCEPT !.playerRef = p,
                                          !.inits[p].player = "live",
                                          !.inits[p].interval = TRUE,
                                          !.inits[p].playing =
                                              VideoPlayer.autoplay,
                                          !.inits[p].stage = "returned"]
    /\ UNCHANGED <<PreviewPlayer, pipeline>>

\* The player is started with its controls.
Play(p) ==
    /\ p \in 1..Len(VideoPlayer.inits)
    /\ VideoPlayer.inits[p].player = "live"
    /\ ~VideoPlayer.inits[p].playing
    /\ VideoPlayer' = [VideoPlayer EXCEPT !.inits[p].playing = TRUE]
    /\ UNCHANGED <<PreviewPlayer, pipeline>>

\* checkTime of call p finds its player playing at or after endTime: the
\* player is paused and onEnded is called.
CheckTime(p) ==
    /\ p \in 1..Len(VideoPlayer.inits)
    /\ VideoPlayer.inits[p].interval
    /\ VideoPlayer.inits[p].player = "live"
    /\ VideoPlayer.inits[p].playing
    /\ VideoPlayer' =
           [VideoPlayer EXCEPT
              !.inits[p].playing = FALSE,
              !.inits[p].ended = IF VideoPlayer.inits[p].torn
                                 THEN "calledTornDown" ELSE "called"]
    /\ UNCHANGED <<PreviewPlayer, pipeline>>

Resumes(p) ==
    \/ ImportFails(p)
    \/ \E tech, marked \in BOOLEAN : ImportsDone(p, tech, marked)
    \/ YTReady(p)

NextVideoPlayer ==
    \/ RunEffect
    \/ PropsChange
    \/ Unmount
    \/ \E p \in 1..MaxInits : ImportFails(p)
    \/ \E p \in 1..MaxInits : \E tech, marked \in BOOLEAN :
           ImportsDone(p, tech, marked)
    \/ \E p \in 1..MaxInits : YTReady(p)
    \/ \E p \in 1..MaxInits : Play(p)
    \/ \E p \in 1..MaxInits : CheckTime(p)

SpecVideoPlayer == InitVideoPlayer /\ [][NextVideoPlayer]_vars

\* Every await of initPlayer settles, and an interval that is set keeps
\* firing.
SpecVideoPlayerFair ==
    /\ InitVideoPlayer
    /\ [][NextVideoPlayer]_vars
    /\ \A p \in 1..MaxInits : WF_vars(Resumes(p)) /\ WF_vars(CheckTime(p))

\* C32 as claimed: no call of initPlayer makes a player on the video element
\* while the player made by another call is not disposed.
C32_OnePlayerAtATime ==
    [][\A p \in 1..Len(VideoPlayer.inits) :
           (VideoPlayer.inits[p].player = "none"
                /\ VideoPlayer'.inits[p].player = "live")
               => \A q \in 1..Len(VideoPlayer.inits) :
                      VideoPlayer.inits[q].player # "live"]_vars

\* C33 as claimed: once the cleanup of the effect that called initPlayer has
\* run, in the end the player of that call is not left undisposed and its
\* interval is cleared; and onEnded is never called for such a player.
C33_TornDownInTheEnd ==
    /\ \A p \in 1..MaxInits :
           (p <= Len(VideoPlayer.inits) /\ VideoPlayer.inits[p].torn)
               ~> (/\ p <= Len(VideoPlayer.inits)
                   /\ VideoPlayer.inits[p].player # "live"
                   /\ ~VideoPlayer.inits[p].interval)
    /\ [](\A p \in 1..Len(VideoPlayer.inits) :
              VideoPlayer.inits[p].ended # "calledTornDown")

\* ========================================================= PreviewPlayer.tsx
\* The component after its first commit, with the list and the index its
\* parent gave it: the video element is rendered only for a list that is
\* not empty.
InitPreviewPlayer ==
    /\ NoRun
    /\ VideoPlayer = NoVideoPlayer
    /\ \E n \in 0..MaxSegments : \E k \in 0..MaxSegments :
           /\ k = 0 \/ k < n
           /\ PreviewPlayer = [NoPreviewPlayer EXCEPT
                                 !.segments = n,
                                 !.currentSegmentIndex = k,
                                 !.videoRef = n > 0,
                                 !.effect = "pending"]

\* The effect with no dependencies runs once, after the first commit: with a
\* video element it makes the player and registers the handlers, which are
\* the functions of that render and keep its currentSegmentIndex and
\* segments.
MountEffect ==
    /\ PreviewPlayer.effect = "pending"
    /\ PreviewPlayer' =
           IF ~PreviewPlayer.videoRef
           THEN [PreviewPlayer EXCEPT !.effect = "mounted"]
           ELSE [PreviewPlayer EXCEPT
                   !.effect = "mounted",
                   !.playerRef = "live",
                   !.handlers = [index  |-> PreviewPlayer.currentSegmentIndex,
                                 length |-> PreviewPlayer.segments]]
    /\ UNCHANGED <<VideoPlayer, pipeline>>

\* The player exists and its element is shown.
Shown ==
    /\ PreviewPlayer.effect = "mounted"
    /\ PreviewPlayer.playerRef = "live"
    /\ PreviewPlayer.segments > 0

stopTimeTracking(pp) == [pp EXCEPT !.checkIntervalRef = FALSE]

\* The registered startTimeTracking: it returns when an interval is set or
\* the segment of the first render is missing.
startTimeTracking(pp) ==
    IF pp.checkIntervalRef \/ pp.handlers.index >= pp.handlers.length
    THEN pp
    ELSE [pp EXCEPT !.checkIntervalRef = TRUE]

\* The parent is given index idx by handler ev and makes it the current
\* index; a new index loads a new source into the player.
onSegmentChange(pp, idx, ev) ==
    [pp EXCEPT !.currentSegmentIndex = idx,
               !.playing = @ /\ idx = pp.currentSegmentIndex,
               !.last = [event |-> ev, at |-> pp.currentSegmentIndex,
                         length |-> pp.segments, call |-> idx,
                         paused |-> FALSE]]

\* The registered handleSegmentEnd, with the index and the length of the
\* render that registered it.
handleSegmentEnd(pp, ev) ==
    IF pp.handlers.index < pp.handlers.length - 1
    THEN onSegmentChange(pp, pp.handlers.index + 1, ev)
    ELSE [pp EXCEPT !.isPlaying = FALSE,
                    !.playing = FALSE,
                    !.checkIntervalRef = FALSE,
                    !.last = [event |-> ev, at |-> pp.currentSegmentIndex,
                              length |-> pp.segments, call |-> NoCall,
                              paused |-> TRUE]]

\* 'play': by the play button, the controls of the player, or the delayed
\* play after a load or after Play All.
PlayEvent ==
    /\ Shown
    /\ ~PreviewPlayer.playing
    /\ PreviewPlayer' =
           startTimeTracking([PreviewPlayer EXCEPT !.playing = TRUE,
                                                   !.isPlaying = TRUE])
    /\ UNCHANGED <<VideoPlayer, pipeline>>

\* 'pause'.
PauseEvent ==
    /\ Shown
    /\ PreviewPlayer.playing
    /\ PreviewPlayer' =
           stopTimeTracking([PreviewPlayer EXCEPT !.playing = FALSE,
                                                  !.isPlaying = FALSE])
    /\ UNCHANGED <<VideoPlayer, pipeline>>

\* Playback of the current segment reaches its end: the interval finds the
\* end time reached, or the player fires 'ended'.
SegmentEnd(source) ==
    /\ Shown
    /\ PreviewPlayer.playing
    /\ source = "timer" => PreviewPlayer.checkIntervalRef
    /\ PreviewPlayer' =
           IF source = "timer"
           THEN handleSegmentEnd(stopTimeTracking(PreviewPlayer), source)
           ELSE handleSegmentEnd(
                    stopTimeTracking([PreviewPlayer EXCEPT
                                        !.isPlaying = FALSE,
                                        !.playing = FALSE]), source)
    /\ UNCHANGED <<VideoPlayer, pipeline>>

\* The buttons are rendered, with the index and the list of the latest
\* render, when the list is not empty.
Rendered ==
    /\ PreviewPlayer.effect = "mounted"
    /\ PreviewPlayer.segments > 0

\* Previous, disabled at index 0.
Previous ==
    /\ Rendered
    /\ PreviewPlayer.currentSegmentIndex # 0
    /\ LET k == PreviewPlayer.currentSegmentIndex - 1
       IN  PreviewPlayer' =
               onSegmentChange(PreviewPlayer, IF k > 0 THEN k ELSE 0,
                               "previous")
    /\ UNCHANGED <<VideoPlayer, pipeline>>

\* Next, disabled at the last index.
NextSegment ==
    /\ Rendered
    /\ PreviewPlayer.currentSegmentIndex # PreviewPlayer.segments - 1
    /\ LET k    == PreviewPlayer.currentSegmentIndex + 1
           last == PreviewPlayer.segments - 1
       IN  PreviewPlayer' =
               onSegmentChange(PreviewPlayer, IF k < last THEN k ELSE last,
                               "next")
    /\ UNCHANGED <<VideoPlayer, pipeline>>

\* Play All: nothing for an empty list, else index 0 is requested and
\* isPlaying is set; the player is started a second later.
handlePlayAll ==
    /\ Rendered
    /\ PreviewPlayer' =
           IF PreviewPlayer.segments = 0 THEN PreviewPlayer
           ELSE [onSegmentChange(PreviewPlayer, 0, "playAll")
                     EXCEPT !.isPlaying = TRUE]
    /\ UNCHANGED <<VideoPlayer, pipeline>>

\* The parent renders the component with another list, and an index of it.
SetSegments(n, k) ==
    /\ PreviewPlayer.effect = "mounted"
    /\ n # PreviewPlayer.segments
    /\ k = 0 \/ k < n
    /\ PreviewPlayer' =
           [PreviewPlayer EXCEPT
              !.segments = n,
              !.currentSegmentIndex = k,
              !.videoRef = n > 0,
              !.playing = @ /\ n > 0
                            /\ k = PreviewPlayer.currentSegmentIndex]
    /\ UNCHANGED <<VideoPlayer, pipeline>>

\* The component is unmounted: the interval is cleared and the player is
\* disposed.
UnmountPreview ==
    /\ PreviewPlayer.effect = "mounted"
    /\ PreviewPlayer' =
           [stopTimeTracking(PreviewPlayer) EXCEPT
              !.effect = "gone", !.videoRef = FALSE, !.playerRef = "null",
              !.playing = FALSE]
    /\ UNCHANGED <<VideoPlayer, pipeline>>

NextPreviewPlayer ==
    \/ MountEffect
    \/ PlayEvent
    \/ PauseEvent
    \/ \E source \in {"timer", "ended"} : SegmentEnd(source)
    \/ Previous
    \/ NextSegment
    \/ handlePlayAll
    \/ \E n \in 0..MaxSegments : \E k \in 0..MaxSegments : SetSegments(n, k)
    \/ UnmountPreview

SpecPreviewPlayer == InitPreviewPlayer /\ [][NextPreviewPlayer]_vars

\* C34 as claimed: when playback of the segment with index k has reached its
\* end, by the timer or by 'ended', index k + 1 was given to onSegmentChange
\* if k was not the last index, whichever segment was current when the
\* player was made; at the last index playback was paused and no index was
\* given.
C34_AdvancesFromCurrent ==
    PreviewPlayer.last.event \in {"timer", "ended"}
        => IF PreviewPlayer.last.at < PreviewPlayer.last.length - 1
           THEN PreviewPlayer.last.call = PreviewPlayer.last.at + 1
           ELSE PreviewPlayer.last.call = NoCall /\ PreviewPlayer.last.paused

\* C35 as claimed: an index given to onSegmentChange, by Previous, Next,
\* Play All or the end of a segment, is an index of the list of that moment,
\* and none is given for an empty list.
C35_IndexInRange ==
    PreviewPlayer.last.call # NoCall
        => /\ PreviewPlayer.last.length > 0
           /\ PreviewPlayer.last.call \in 0..(PreviewPlayer.last.length - 1)

====
